---- MODULE Spec2Model ----
(***************************************************************************)
(* Model of @niicojs/soql: the escaping functions (escapeString,           *)
(* escapeLike, escapeArray, escapeValue), the value wrappers (raw, like,   *)
(* date, literal) and the soql template tag.                               *)
(*                                                                         *)
(* A JavaScript string is a sequence of one-character tokens.  The         *)
(* characters that have no printable form are named: LF, CR, TAB, NUL.     *)
(* The library is a set of pure functions: every action is one call of an  *)
(* exported function, on arguments drawn from bounded sets, and records    *)
(* the arguments and what the call returned or threw.                      *)
(***************************************************************************)
EXTENDS Integers, Sequences, FiniteSets, TLC

(***************************************************************************)
(* Bounds of the explored inputs.                                          *)
(***************************************************************************)
MaxLen == 3
MaxValLen == 3
MaxArrLen == 2
MaxDepth == 2
MaxSlots == 2

(***************************************************************************)
(* Characters.                                                             *)
(***************************************************************************)
BS == "\\"
SQ == "'"
LF == "LF"
CR == "CR"
TAB == "TAB"
NUL == "NUL"

Alphabet == {"a", BS, SQ, LF, CR, TAB, NUL, "n", "r", "t", "0", "%", "_"}
ValAlphabet == {"a", BS, SQ, "%", "_", LF}

SeqsUpTo(S, n) == UNION {[1..k -> S] : k \in 0..n}

RECURSIVE Concat(_)
Concat(ss) == IF ss = <<>> THEN <<>> ELSE Head(ss) \o Concat(Tail(ss))

(***************************************************************************)
(* String.prototype.replace with a global one-character pattern: every     *)
(* occurrence of the character c in s becomes the text r.                  *)
(***************************************************************************)
RECURSIVE ReplaceAll(_, _, _)
ReplaceAll(s, c, r) ==
  IF s = <<>> THEN <<>>
  ELSE (IF Head(s) = c THEN r ELSE <<Head(s)>>) \o ReplaceAll(Tail(s), c, r)

escapeString_noQuote(val) ==
  ReplaceAll(ReplaceAll(ReplaceAll(ReplaceAll(ReplaceAll(
    val, BS, <<BS, BS>>), LF, <<BS, "n">>), CR, <<BS, "r">>),
    TAB, <<BS, "t">>), NUL, <<BS, "0">>)

escapeString_noNul(val) ==
  ReplaceAll(ReplaceAll(ReplaceAll(ReplaceAll(ReplaceAll(
    val, BS, <<BS, BS>>), SQ, <<BS, SQ>>), LF, <<BS, "n">>),
    CR, <<BS, "r">>), TAB, <<BS, "t">>)

escapeString_noBackslash(val) ==
  ReplaceAll(ReplaceAll(ReplaceAll(ReplaceAll(ReplaceAll(
    val, SQ, <<BS, SQ>>), LF, <<BS, "n">>), CR, <<BS, "r">>),
    TAB, <<BS, "t">>), NUL, <<BS, "0">>)

escapeString_backslashLast(val) ==
  ReplaceAll(ReplaceAll(ReplaceAll(ReplaceAll(ReplaceAll(ReplaceAll(
    val, SQ, <<BS, SQ>>), LF, <<BS, "n">>), CR, <<BS, "r">>),
    TAB, <<BS, "t">>), NUL, <<BS, "0">>), BS, <<BS, BS>>)

escapeString(val) ==
  ReplaceAll(ReplaceAll(ReplaceAll(ReplaceAll(ReplaceAll(ReplaceAll(
    val, BS, <<BS, BS>>), SQ, <<BS, SQ>>), LF, <<BS, "n">>),
    CR, <<BS, "r">>), TAB, <<BS, "t">>), NUL, <<BS, "0">>)

escapeLike_noUnderscore(val) ==
  ReplaceAll(ReplaceAll(ReplaceAll(ReplaceAll(ReplaceAll(ReplaceAll(ReplaceAll(
    val, BS, <<BS, BS>>), SQ, <<BS, SQ>>), "%", <<BS, "%">>),
    LF, <<BS, "n">>), CR, <<BS, "r">>), TAB, <<BS, "t">>), NUL, <<BS, "0">>)

escapeLike(val) ==
  ReplaceAll(ReplaceAll(ReplaceAll(ReplaceAll(ReplaceAll(ReplaceAll(ReplaceAll(ReplaceAll(
    val, BS, <<BS, BS>>), SQ, <<BS, SQ>>), "%", <<BS, "%">>), "_", <<BS, "_">>),
    LF, <<BS, "n">>), CR, <<BS, "r">>), TAB, <<BS, "t">>), NUL, <<BS, "0">>)


(***************************************************************************)
(* Numbers and instants.  A number is finite (an integer here) or one of   *)
(* the three non-finite values.  A Date is its UTC calendar fields, or     *)
(* invalid (getTime() is NaN).                                             *)
(***************************************************************************)
DigitChars == <<"0", "1", "2", "3", "4", "5", "6", "7", "8", "9">>

RECURSIVE Digits(_)
Digits(n) ==
  IF n < 10 THEN <<DigitChars[n + 1]>>
  ELSE Digits(n \div 10) \o <<DigitChars[(n % 10) + 1]>>

\* String(n) for an integer n
NumberToString(n) == IF n < 0 THEN <<"-">> \o Digits(0 - n) ELSE Digits(n)

\* String.prototype.padStart
padStart(s, targetLength, fill) ==
  IF Len(s) >= targetLength THEN s
  ELSE [i \in 1..(targetLength - Len(s)) |-> fill] \o s

Finite(n) == [kind |-> "finite", int |-> n]
NaN == [kind |-> "NaN", int |-> 0]
Infinity == [kind |-> "Infinity", int |-> 0]
NegInfinity == [kind |-> "-Infinity", int |-> 0]

Instant(y, mo, d, h, mi, sec, millis) ==
  [valid |-> TRUE, year |-> y, month |-> mo, day |-> d,
   hours |-> h, minutes |-> mi, seconds |-> sec, ms |-> millis]
InvalidDate ==
  [valid |-> FALSE, year |-> 0, month |-> 0, day |-> 0,
   hours |-> 0, minutes |-> 0, seconds |-> 0, ms |-> 0]

(***************************************************************************)
(* JavaScript values, as far as escapeValue looks at them: the typeof tag, *)
(* null, Array.isArray, instanceof Date, the marker properties (absent,    *)
(* true, or some other value) and the payloads.                            *)
(***************************************************************************)
NoPayload == [t |-> "undefined", s |-> <<>>, d |-> InvalidDate]
StringPayload(s) == [t |-> "string", s |-> s, d |-> InvalidDate]
DatePayload(d) == [t |-> "date", s |-> <<>>, d |-> d]

Undefined ==
  [typeof |-> "undefined", isNull |-> FALSE, isArray |-> FALSE, isDate |-> FALSE,
   RAW_SYMBOL |-> "absent", LIKE_SYMBOL |-> "absent", DATE_SYMBOL |-> "absent",
   __raw |-> "absent", __like |-> "absent", value |-> NoPayload,
   str |-> <<>>, bool |-> FALSE, num |-> Finite(0), time |-> InvalidDate,
   elems |-> <<>>]
Null == [Undefined EXCEPT !.typeof = "object", !.isNull = TRUE]
Str(s) == [Undefined EXCEPT !.typeof = "string", !.str = s]
Bool(b) == [Undefined EXCEPT !.typeof = "boolean", !.bool = b]
Num(n) == [Undefined EXCEPT !.typeof = "number", !.num = n]
Object == [Undefined EXCEPT !.typeof = "object"]
DateObj(d) == [Object EXCEPT !.isDate = TRUE, !.time = d]
Arr(items) == [Object EXCEPT !.isArray = TRUE, !.elems = items]
BigInt == [Undefined EXCEPT !.typeof = "bigint"]

Ok(t) == [ok |-> TRUE, text |-> t, err |-> ""]
Throw(e) == [ok |-> FALSE, text |-> <<>>, err |-> e]

(***************************************************************************)
(* The wrappers (helpers.ts).                                              *)
(***************************************************************************)
raw_asLike(value) ==
  [Object EXCEPT !.LIKE_SYMBOL = "true", !.value = StringPayload(value)]

raw(value) ==
  [Object EXCEPT !.RAW_SYMBOL = "true", !.value = StringPayload(value)]

like(value) ==
  [Object EXCEPT !.LIKE_SYMBOL = "true", !.value = StringPayload(value)]

date_unchecked(value) ==
  [ok |-> TRUE, err |-> "",
   ret |-> [Object EXCEPT !.DATE_SYMBOL = "true", !.value = DatePayload(value)]]

\* date() throws on an invalid instant, otherwise returns the wrapper
date(value) ==
  IF ~value.valid
  THEN [ok |-> FALSE, err |-> "Invalid Date object", ret |-> Undefined]
  ELSE [ok |-> TRUE, err |-> "",
        ret |-> [Object EXCEPT !.DATE_SYMBOL = "true", !.value = DatePayload(value)]]

literal(value) == raw(value)

isRawValue_anyMarker(val) ==
  val.typeof = "object" /\ ~val.isNull /\ val.RAW_SYMBOL # "absent"

isRawValue(val) ==
  val.typeof = "object" /\ ~val.isNull /\ val.RAW_SYMBOL # "absent"
    /\ val.RAW_SYMBOL = "true"

isLikeValue(val) ==
  val.typeof = "object" /\ ~val.isNull /\ val.LIKE_SYMBOL # "absent"
    /\ val.LIKE_SYMBOL = "true"

isDateValue(val) ==
  val.typeof = "object" /\ ~val.isNull /\ val.DATE_SYMBOL # "absent"
    /\ val.DATE_SYMBOL = "true"

(***************************************************************************)
(* Date formatting (escape.ts).                                            *)
(***************************************************************************)
NaNText == <<"N", "a", "N">>

\* the getUTC* accessors return NaN on an invalid Date
formatDate(d) ==
  IF ~d.valid THEN NaNText \o <<"-">> \o NaNText \o <<"-">> \o NaNText
  ELSE NumberToString(d.year) \o <<"-">>
         \o padStart(NumberToString(d.month + 1), 2, "0") \o <<"-">>
         \o padStart(NumberToString(d.day), 2, "0")

\* Date.prototype.toISOString of a valid instant
toISOString(d) ==
  (IF d.year >= 0 /\ d.year <= 9999
     THEN padStart(NumberToString(d.year), 4, "0")
     ELSE <<(IF d.year < 0 THEN "-" ELSE "+")>>
            \o padStart(Digits(IF d.year < 0 THEN 0 - d.year ELSE d.year), 6, "0"))
    \o <<"-">> \o padStart(NumberToString(d.month + 1), 2, "0")
    \o <<"-">> \o padStart(NumberToString(d.day), 2, "0")
    \o <<"T">> \o padStart(NumberToString(d.hours), 2, "0")
    \o <<":">> \o padStart(NumberToString(d.minutes), 2, "0")
    \o <<":">> \o padStart(NumberToString(d.seconds), 2, "0")
    \o <<".">> \o padStart(NumberToString(d.ms), 3, "0")
    \o <<"Z">>

IsDigit(c) == \E i \in 1..10 : DigitChars[i] = c

\* s.replace(/\.\d{3}Z$/, 'Z')
StripMillis(s) ==
  LET n == Len(s) IN
  IF n >= 5 /\ s[n - 4] = "." /\ IsDigit(s[n - 3]) /\ IsDigit(s[n - 2])
       /\ IsDigit(s[n - 1]) /\ s[n] = "Z"
  THEN SubSeq(s, 1, n - 5) \o <<"Z">>
  ELSE s

\* toISOString throws a RangeError on an invalid Date
formatDateTime(d) ==
  IF ~d.valid THEN Throw("RangeError: Invalid time value")
  ELSE Ok(StripMillis(toISOString(d)))


(***************************************************************************)
(* escapeArray and escapeValue (escape.ts, the current implementation:     *)
(* symbol-keyed markers, DateOnly wrappers, empty arrays rejected).        *)
(* A call returns Ok(text) or Throw(message).                              *)
(***************************************************************************)
NullText == <<"n", "u", "l", "l">>
TrueText == <<"t", "r", "u", "e">>
FalseText == <<"f", "a", "l", "s", "e">>
EmptyArrayMessage ==
  "Empty arrays are not allowed in SOQL IN clauses. Use a conditional to skip the query or provide at least one value."

\* Array.prototype.join on an array of strings
RECURSIVE JoinTexts(_, _)
JoinTexts(texts, sep) ==
  IF texts = <<>> THEN <<>>
  ELSE IF Len(texts) = 1 THEN Head(texts)
  ELSE Head(texts) \o sep \o JoinTexts(Tail(texts), sep)

RECURSIVE escapeValue(_, _)
RECURSIVE escapeArray(_)

\* arr.map((item) => escapeValue(item, wrap)): the escaped texts in order, or
\* the failure of the first element that throws
RECURSIVE EscapeItems(_, _)
EscapeItems(items, wrap) ==
  IF items = <<>> THEN [ok |-> TRUE, texts |-> <<>>, err |-> ""]
  ELSE LET h == escapeValue(Head(items), wrap) IN
       IF ~h.ok THEN [ok |-> FALSE, texts |-> <<>>, err |-> h.err]
       ELSE LET r == EscapeItems(Tail(items), wrap) IN
            IF ~r.ok THEN r
            ELSE [ok |-> TRUE, texts |-> <<h.text>> \o r.texts, err |-> ""]

escapeArray_placeholder(arr) ==
  IF Len(arr) = 0 THEN Ok(<<"(">> \o NullText \o <<")">>)
  ELSE LET escaped == EscapeItems(arr, TRUE) IN
       IF ~escaped.ok THEN Throw(escaped.err)
       ELSE Ok(<<"(">> \o JoinTexts(escaped.texts, <<",", " ">>) \o <<")">>)

escapeArray_unquoted(arr) ==
  IF Len(arr) = 0 THEN Throw(EmptyArrayMessage)
  ELSE LET escaped == EscapeItems(arr, FALSE) IN
       IF ~escaped.ok THEN Throw(escaped.err)
       ELSE Ok(<<"(">> \o JoinTexts(escaped.texts, <<",", " ">>) \o <<")">>)

escapeArray(arr) ==
  IF Len(arr) = 0 THEN Throw(EmptyArrayMessage)
  ELSE LET escaped == EscapeItems(arr, TRUE) IN
       IF ~escaped.ok THEN Throw(escaped.err)
       ELSE Ok(<<"(">> \o JoinTexts(escaped.texts, <<",", " ">>) \o <<")">>)

escapeValue_likeFirst(val, wrapStrings) ==
  IF val.isNull \/ val.typeof = "undefined" THEN Ok(NullText)
  ELSE IF isLikeValue(val) THEN
    LET escaped == escapeLike(val.value.s) IN
    Ok(IF wrapStrings THEN <<SQ>> \o escaped \o <<SQ>> ELSE escaped)
  ELSE IF isRawValue(val) THEN Ok(val.value.s)
  ELSE IF isDateValue(val) THEN Ok(formatDate(val.value.d))
  ELSE IF val.isArray THEN escapeArray(val.elems)
  ELSE IF val.typeof = "boolean" THEN Ok(IF val.bool THEN TrueText ELSE FalseText)
  ELSE IF val.typeof = "number" THEN
    IF val.num.kind # "finite"
    THEN Throw("Invalid SOQL number value: " \o val.num.kind)
    ELSE Ok(NumberToString(val.num.int))
  ELSE IF val.isDate THEN
    IF ~val.time.valid THEN Throw("Invalid Date object")
    ELSE formatDateTime(val.time)
  ELSE IF val.typeof = "string" THEN
    LET escaped == escapeString(val.str) IN
    Ok(IF wrapStrings THEN <<SQ>> \o escaped \o <<SQ>> ELSE escaped)
  ELSE Throw("Unsupported SOQL value type: " \o val.typeof)

escapeValue_rawQuoted(val, wrapStrings) ==
  IF val.isNull \/ val.typeof = "undefined" THEN Ok(NullText)
  ELSE IF isRawValue(val) THEN
    Ok(IF wrapStrings THEN <<SQ>> \o val.value.s \o <<SQ>> ELSE val.value.s)
  ELSE IF isLikeValue(val) THEN
    LET escaped == escapeLike(val.value.s) IN
    Ok(IF wrapStrings THEN <<SQ>> \o escaped \o <<SQ>> ELSE escaped)
  ELSE IF isDateValue(val) THEN Ok(formatDate(val.value.d))
  ELSE IF val.isArray THEN escapeArray(val.elems)
  ELSE IF val.typeof = "boolean" THEN Ok(IF val.bool THEN TrueText ELSE FalseText)
  ELSE IF val.typeof = "number" THEN
    IF val.num.kind # "finite"
    THEN Throw("Invalid SOQL number value: " \o val.num.kind)
    ELSE Ok(NumberToString(val.num.int))
  ELSE IF val.isDate THEN
    IF ~val.time.valid THEN Throw("Invalid Date object")
    ELSE formatDateTime(val.time)
  ELSE IF val.typeof = "string" THEN
    LET escaped == escapeString(val.str) IN
    Ok(IF wrapStrings THEN <<SQ>> \o escaped \o <<SQ>> ELSE escaped)
  ELSE Throw("Unsupported SOQL value type: " \o val.typeof)

escapeValue_noFiniteCheck(val, wrapStrings) ==
  IF val.isNull \/ val.typeof = "undefined" THEN Ok(NullText)
  ELSE IF isRawValue(val) THEN Ok(val.value.s)
  ELSE IF isLikeValue(val) THEN
    LET escaped == escapeLike(val.value.s) IN
    Ok(IF wrapStrings THEN <<SQ>> \o escaped \o <<SQ>> ELSE escaped)
  ELSE IF isDateValue(val) THEN Ok(formatDate(val.value.d))
  ELSE IF val.isArray THEN escapeArray(val.elems)
  ELSE IF val.typeof = "boolean" THEN Ok(IF val.bool THEN TrueText ELSE FalseText)
  ELSE IF val.typeof = "number" THEN
    IF val.num.kind # "finite"
    THEN Ok(<<val.num.kind>>)
    ELSE Ok(NumberToString(val.num.int))
  ELSE IF val.isDate THEN
    IF ~val.time.valid THEN Throw("Invalid Date object")
    ELSE formatDateTime(val.time)
  ELSE IF val.typeof = "string" THEN
    LET escaped == escapeString(val.str) IN
    Ok(IF wrapStrings THEN <<SQ>> \o escaped \o <<SQ>> ELSE escaped)
  ELSE Throw("Unsupported SOQL value type: " \o val.typeof)

escapeValue(val, wrapStrings) ==
  IF val.isNull \/ val.typeof = "undefined" THEN Ok(NullText)
  ELSE IF isRawValue(val) THEN Ok(val.value.s)
  ELSE IF isLikeValue(val) THEN
    LET escaped == escapeLike(val.value.s) IN
    Ok(IF wrapStrings THEN <<SQ>> \o escaped \o <<SQ>> ELSE escaped)
  ELSE IF isDateValue(val) THEN Ok(formatDate(val.value.d))
  ELSE IF val.isArray THEN escapeArray(val.elems)
  ELSE IF val.typeof = "boolean" THEN Ok(IF val.bool THEN TrueText ELSE FalseText)
  ELSE IF val.typeof = "number" THEN
    IF val.num.kind # "finite"
    THEN Throw("Invalid SOQL number value: " \o val.num.kind)
    ELSE Ok(NumberToString(val.num.int))
  ELSE IF val.isDate THEN
    IF ~val.time.valid THEN Throw("Invalid Date object")
    ELSE formatDateTime(val.time)
  ELSE IF val.typeof = "string" THEN
    LET escaped == escapeString(val.str) IN
    Ok(IF wrapStrings THEN <<SQ>> \o escaped \o <<SQ>> ELSE escaped)
  ELSE Throw("Unsupported SOQL value type: " \o val.typeof)

(***************************************************************************)
(* The template tag (soql.ts): the loop over the literal segments.         *)
(***************************************************************************)
RECURSIVE soqlLoop(_, _, _, _)
soqlLoop(strings, values, i, result) ==
  IF i > Len(strings) THEN Ok(result)
  ELSE LET r1 == result \o strings[i] IN
       IF i <= Len(values)
       THEN LET e == escapeValue(values[i], TRUE) IN
            IF ~e.ok THEN e ELSE soqlLoop(strings, values, i + 1, r1 \o e.text)
       ELSE soqlLoop(strings, values, i + 1, r1)

RECURSIVE soqlLoop_skipFailures(_, _, _, _)
soqlLoop_skipFailures(strings, values, i, result) ==
  IF i > Len(strings) THEN Ok(result)
  ELSE LET r1 == result \o strings[i] IN
       IF i <= Len(values)
       THEN LET e == escapeValue(values[i], TRUE) IN
            soqlLoop_skipFailures(strings, values, i + 1, r1 \o e.text)
       ELSE soqlLoop_skipFailures(strings, values, i + 1, r1)

soql_skipFailures(strings, values) == soqlLoop_skipFailures(strings, values, 1, <<>>)

soql_dropLast(strings, values) ==
  soqlLoop(SubSeq(strings, 1, Len(strings) - 1), values, 1, <<>>)

soql(strings, values) == soqlLoop(strings, values, 1, <<>>)


(***************************************************************************)
(* join (escape.ts).  The separator argument is given or omitted; the      *)
(* call returns a Raw wrapper or throws.                                   *)
(***************************************************************************)
Omitted == [given |-> FALSE, text |-> <<>>]
Given(t) == [given |-> TRUE, text |-> t]

\* the default parameter value: separator: string = ', '
SeparatorText(separator) == IF separator.given THEN separator.text ELSE <<",", " ">>

join_asString(values, separator) ==
  LET escaped == EscapeItems(values, TRUE) IN
  IF ~escaped.ok THEN [ok |-> FALSE, err |-> escaped.err, ret |-> Undefined]
  ELSE [ok |-> TRUE, err |-> "",
        ret |-> Str(JoinTexts(escaped.texts, SeparatorText(separator)))]

join(values, separator) ==
  LET escaped == EscapeItems(values, TRUE) IN
  IF ~escaped.ok THEN [ok |-> FALSE, err |-> escaped.err, ret |-> Undefined]
  ELSE [ok |-> TRUE, err |-> "",
        ret |-> raw(JoinTexts(escaped.texts, SeparatorText(separator)))]

(***************************************************************************)
(* The earlier implementation kept in the repository: wrappers marked by   *)
(* the string keys __raw and __like, no DateOnly wrapper, and an           *)
(* escapeArray that returns a placeholder for the empty array.  Its        *)
(* escapeString, escapeLike and formatDateTime are, line for line, those   *)
(* above.                                                                  *)
(***************************************************************************)
rawV1(value) ==
  [Object EXCEPT !.__raw = "true", !.value = StringPayload(value)]

likeV1(value) ==
  [Object EXCEPT !.__like = "true", !.value = StringPayload(value)]

isRawValueV1(val) ==
  val.typeof = "object" /\ ~val.isNull /\ val.__raw # "absent" /\ val.__raw = "true"

isLikeValueV1(val) ==
  val.typeof = "object" /\ ~val.isNull /\ val.__like # "absent" /\ val.__like = "true"

RECURSIVE escapeValueV1(_, _)
RECURSIVE escapeArrayV1(_)

RECURSIVE EscapeItemsV1(_, _)
EscapeItemsV1(items, wrap) ==
  IF items = <<>> THEN [ok |-> TRUE, texts |-> <<>>, err |-> ""]
  ELSE LET h == escapeValueV1(Head(items), wrap) IN
       IF ~h.ok THEN [ok |-> FALSE, texts |-> <<>>, err |-> h.err]
       ELSE LET r == EscapeItemsV1(Tail(items), wrap) IN
            IF ~r.ok THEN r
            ELSE [ok |-> TRUE, texts |-> <<h.text>> \o r.texts, err |-> ""]

escapeArrayV1_rejecting(arr) ==
  IF Len(arr) = 0 THEN Throw(EmptyArrayMessage)
  ELSE LET escaped == EscapeItemsV1(arr, TRUE) IN
       IF ~escaped.ok THEN Throw(escaped.err)
       ELSE Ok(<<"(">> \o JoinTexts(escaped.texts, <<",", " ">>) \o <<")">>)

escapeArrayV1(arr) ==
  IF Len(arr) = 0 THEN Ok(<<"(">> \o NullText \o <<")">>)
  ELSE LET escaped == EscapeItemsV1(arr, TRUE) IN
       IF ~escaped.ok THEN Throw(escaped.err)
       ELSE Ok(<<"(">> \o JoinTexts(escaped.texts, <<",", " ">>) \o <<")">>)

escapeValueV1_stringAsLike(val, wrapStrings) ==
  IF val.isNull \/ val.typeof = "undefined" THEN Ok(NullText)
  ELSE IF isRawValueV1(val) THEN Ok(val.value.s)
  ELSE IF isLikeValueV1(val) THEN
    LET escaped == escapeLike(val.value.s) IN
    Ok(IF wrapStrings THEN <<SQ>> \o escaped \o <<SQ>> ELSE escaped)
  ELSE IF val.isArray THEN escapeArrayV1(val.elems)
  ELSE IF val.typeof = "boolean" THEN Ok(IF val.bool THEN TrueText ELSE FalseText)
  ELSE IF val.typeof = "number" THEN
    IF val.num.kind # "finite"
    THEN Throw("Invalid SOQL number value: " \o val.num.kind)
    ELSE Ok(NumberToString(val.num.int))
  ELSE IF val.isDate THEN
    IF ~val.time.valid THEN Throw("Invalid Date object")
    ELSE formatDateTime(val.time)
  ELSE IF val.typeof = "string" THEN
    LET escaped == escapeLike(val.str) IN
    Ok(IF wrapStrings THEN <<SQ>> \o escaped \o <<SQ>> ELSE escaped)
  ELSE Throw("Unsupported SOQL value type: " \o val.typeof)

escapeValueV1(val, wrapStrings) ==
  IF val.isNull \/ val.typeof = "undefined" THEN Ok(NullText)
  ELSE IF isRawValueV1(val) THEN Ok(val.value.s)
  ELSE IF isLikeValueV1(val) THEN
    LET escaped == escapeLike(val.value.s) IN
    Ok(IF wrapStrings THEN <<SQ>> \o escaped \o <<SQ>> ELSE escaped)
  ELSE IF val.isArray THEN escapeArrayV1(val.elems)
  ELSE IF val.typeof = "boolean" THEN Ok(IF val.bool THEN TrueText ELSE FalseText)
  ELSE IF val.typeof = "number" THEN
    IF val.num.kind # "finite"
    THEN Throw("Invalid SOQL number value: " \o val.num.kind)
    ELSE Ok(NumberToString(val.num.int))
  ELSE IF val.isDate THEN
    IF ~val.time.valid THEN Throw("Invalid Date object")
    ELSE formatDateTime(val.time)
  ELSE IF val.typeof = "string" THEN
    LET escaped == escapeString(val.str) IN
    Ok(IF wrapStrings THEN <<SQ>> \o escaped \o <<SQ>> ELSE escaped)
  ELSE Throw("Unsupported SOQL value type: " \o val.typeof)

(***************************************************************************)
(* The inputs explored.                                                    *)
(***************************************************************************)
Strings == SeqsUpTo(Alphabet, MaxLen)
ValStrings == SeqsUpTo(ValAlphabet, MaxValLen)

Numbers == {Finite(n) : n \in {0, 7, 42, 500, 0 - 123}} \cup {NaN, Infinity, NegInfinity}

Dates ==
  { Instant(2024, 2, 15, 14, 30, 45, 123), Instant(2024, 2, 15, 14, 30, 45, 999),
    Instant(2024, 0, 5, 0, 0, 0, 0), Instant(999, 11, 31, 23, 59, 59, 0),
    Instant(12345, 5, 9, 1, 2, 3, 4), Instant(0 - 1, 0, 1, 0, 0, 0, 0),
    InvalidDate }

DateLiterals ==
  { <<"T", "O", "D", "A", "Y">>,
    <<"L", "A", "S", "T", "_", "N", "_", "D", "A", "Y", "S", ":", "3", "0">> }

\* objects that match several branches of escapeValue, or none
Oddities ==
  { [raw(<<"a", SQ>>) EXCEPT !.LIKE_SYMBOL = "true"],
    [raw(<<"a", SQ>>) EXCEPT !.LIKE_SYMBOL = "true", !.DATE_SYMBOL = "true"],
    [like(<<"%", SQ>>) EXCEPT !.DATE_SYMBOL = "true"],
    [Arr(<<Str(<<"a">>)>>) EXCEPT !.RAW_SYMBOL = "true", !.value = StringPayload(<<"a", SQ>>)],
    [Arr(<<Str(<<"a">>)>>) EXCEPT !.LIKE_SYMBOL = "true", !.value = StringPayload(<<"%", SQ>>)],
    [Arr(<<>>) EXCEPT !.DATE_SYMBOL = "true", !.value = DatePayload(Instant(2024, 0, 5, 0, 0, 0, 0))],
    [DateObj(Instant(2024, 0, 5, 0, 0, 0, 0)) EXCEPT !.RAW_SYMBOL = "true", !.value = StringPayload(<<"a", SQ>>)],
    [DateObj(InvalidDate) EXCEPT !.LIKE_SYMBOL = "true", !.value = StringPayload(<<"%", SQ>>)],
    [DateObj(InvalidDate) EXCEPT !.DATE_SYMBOL = "true", !.value = DatePayload(Instant(999, 11, 31, 23, 59, 59, 0))],
    [Object EXCEPT !.value = StringPayload(<<"a", SQ>>)],
    [Object EXCEPT !.RAW_SYMBOL = "other", !.value = StringPayload(<<"a", SQ>>)],
    [Object EXCEPT !.LIKE_SYMBOL = "other", !.value = StringPayload(<<"%", SQ>>)],
    [Object EXCEPT !.DATE_SYMBOL = "other", !.value = DatePayload(Instant(2024, 0, 5, 0, 0, 0, 0))],
    [Arr(<<Str(<<"a">>)>>) EXCEPT !.RAW_SYMBOL = "other", !.value = StringPayload(<<"a", SQ>>)],
    [DateObj(Instant(2024, 0, 5, 0, 0, 0, 0)) EXCEPT !.LIKE_SYMBOL = "other", !.value = StringPayload(<<"%", SQ>>)],
    [Object EXCEPT !.__raw = "true", !.value = StringPayload(<<"a", SQ>>)],
    [Object EXCEPT !.__like = "true", !.value = StringPayload(<<"%", SQ>>)],
    Object, BigInt }

Atoms ==
  {Undefined, Null, Bool(TRUE), Bool(FALSE)}
    \cup {Str(s) : s \in ValStrings}
    \cup {raw(s) : s \in ValStrings}
    \cup {like(s) : s \in ValStrings}
    \cup {literal(s) : s \in DateLiterals}
    \cup {Num(n) : n \in Numbers}
    \cup {DateObj(d) : d \in Dates}
    \cup {date(d).ret : d \in {x \in Dates : x.valid}}
    \cup Oddities

\* the elements the explored arrays are made of
ElemAtoms ==
  { Str(<<"a">>), Str(<<SQ>>), Str(<<BS, SQ>>), Str(<<SQ, BS>>),
    like(<<"%", SQ>>), raw(<<"a", SQ>>), Bool(TRUE), Num(Finite(42)), Num(NaN) }
NestHeads == {Str(<<SQ>>)}

FlatArrays == {Arr(e) : e \in SeqsUpTo(ElemAtoms, MaxArrLen)}

\* arrays nested up to depth d
RECURSIVE Nested(_)
Nested(d) ==
  IF d <= 1 THEN FlatArrays
  ELSE LET P == Nested(d - 1) IN
       P \cup {Arr(<<x>>) : x \in P} \cup {Arr(<<a, x>>) : a \in NestHeads, x \in P}

Arrays == Nested(MaxDepth)
Values == Atoms \cup Arrays

\* the arrays given to the earlier implementation
ElemAtomsV1 ==
  { Str(<<"a">>), Str(<<SQ>>), Str(<<BS, SQ>>), likeV1(<<"%", SQ>>), rawV1(<<"a", SQ>>),
    Bool(TRUE), Num(Finite(42)), Num(NaN) }

FlatArraysV1 == {Arr(e) : e \in SeqsUpTo(ElemAtomsV1, MaxArrLen)}

RECURSIVE NestedV1(_)
NestedV1(d) ==
  IF d <= 1 THEN FlatArraysV1
  ELSE LET P == NestedV1(d - 1) IN
       P \cup {Arr(<<x>>) : x \in P} \cup {Arr(<<a, x>>) : a \in NestHeads, x \in P}

ArraysV1 == NestedV1(MaxDepth)

\* arrays of the values that are neither strings nor wrappers
MixedElemsV1 ==
  { Null, Undefined, DateObj(Instant(2024, 2, 15, 14, 30, 45, 123)), DateObj(InvalidDate),
    Num(Infinity), likeV1(<<"%">>) }

MixedArraysV1 ==
  LET F == {Arr(e) : e \in SeqsUpTo(MixedElemsV1, MaxArrLen)} IN
  F \cup {Arr(<<a, x>>) : a \in NestHeads, x \in F}

\* objects the earlier escapeValue classifies by no branch, or by two
OdditiesV1 ==
  { raw(<<"a", SQ>>), like(<<"%", SQ>>), date(Instant(2024, 0, 5, 0, 0, 0, 0)).ret,
    [rawV1(<<"a", SQ>>) EXCEPT !.__like = "true"],
    [Object EXCEPT !.__raw = "other", !.value = StringPayload(<<"a", SQ>>)],
    Object, BigInt }

AtomsV1 ==
  {Undefined, Null, Bool(TRUE), Bool(FALSE)}
    \cup {Str(s) : s \in ValStrings}
    \cup {rawV1(s) : s \in ValStrings}
    \cup {likeV1(s) : s \in ValStrings}
    \cup {Num(n) : n \in Numbers}
    \cup {DateObj(d) : d \in Dates}
    \cup OdditiesV1

ValuesV1 == AtomsV1 \cup ArraysV1 \cup MixedArraysV1

\* the separators given to join
Separators ==
  {Omitted, Given(<<",", " ">>), Given(<<" ", "A", "N", "D", " ">>), Given(<<SQ>>), Given(<<>>)}

\* the templates: n + 1 literal segments around n slots
Segments == {<<>>, <<"a", " ">>}
SlotValues ==
  { Str(<<"a">>), Str(<<SQ>>), Bool(TRUE), Num(Finite(500)), Null, raw(<<"a">>),
    Num(NaN), Arr(<<>>), Arr(<<Str(<<SQ>>)>>) }

(***************************************************************************)
(* The state: one call (function and arguments) and its outcome.  The      *)
(* functions are pure and share no state, so a behaviour is a single call  *)
(* made from the initial state.                                            *)
(***************************************************************************)
VARIABLES fn, str, val, arr, wrapStrings, strings, values, separator, result, ret

vars == <<fn, str, val, arr, wrapStrings, strings, values, separator, result, ret>>

Init ==
  /\ fn = "none"
  /\ str = <<>>
  /\ val = Undefined
  /\ arr = <<>>
  /\ wrapStrings = TRUE
  /\ strings = <<>>
  /\ values = <<>>
  /\ separator = Omitted
  /\ result = Ok(<<>>)
  /\ ret = Undefined

EscapeString ==
  /\ fn = "none"
  /\ \E s \in Strings :
    /\ fn' = "escapeString"
    /\ str' = s
    /\ result' = Ok(escapeString(s))
    /\ separator' = Omitted /\ ret' = Undefined
    /\ val' = Undefined /\ arr' = <<>> /\ wrapStrings' = TRUE
    /\ strings' = <<>> /\ values' = <<>>

EscapeLike ==
  /\ fn = "none"
  /\ \E s \in Strings :
    /\ fn' = "escapeLike"
    /\ str' = s
    /\ result' = Ok(escapeLike(s))
    /\ separator' = Omitted /\ ret' = Undefined
    /\ val' = Undefined /\ arr' = <<>> /\ wrapStrings' = TRUE
    /\ strings' = <<>> /\ values' = <<>>

EscapeValue ==
  /\ fn = "none"
  /\ \E v \in Values, w \in BOOLEAN :
    /\ fn' = "escapeValue"
    /\ val' = v
    /\ wrapStrings' = w
    /\ result' = escapeValue(v, w)
    /\ separator' = Omitted /\ ret' = Undefined
    /\ str' = <<>> /\ arr' = <<>> /\ strings' = <<>> /\ values' = <<>>

EscapeArray ==
  /\ fn = "none"
  /\ \E a \in Arrays :
    /\ fn' = "escapeArray"
    /\ arr' = a.elems
    /\ result' = escapeArray(a.elems)
    /\ separator' = Omitted /\ ret' = Undefined
    /\ str' = <<>> /\ val' = Undefined /\ wrapStrings' = TRUE
    /\ strings' = <<>> /\ values' = <<>>

Soql ==
  /\ fn = "none"
  /\ \E n \in 0..MaxSlots :
    \E ss \in [1..(n + 1) -> Segments],
       vs \in [1..n -> IF n = 1 THEN Values ELSE SlotValues] :
      /\ fn' = "soql"
      /\ strings' = ss
      /\ values' = vs
      /\ result' = soql(ss, vs)
      /\ separator' = Omitted /\ ret' = Undefined
      /\ str' = <<>> /\ val' = Undefined /\ arr' = <<>> /\ wrapStrings' = TRUE

EscapeArrayV1 ==
  /\ fn = "none"
  /\ \E a \in ArraysV1 :
    /\ fn' = "escapeArrayV1"
    /\ arr' = a.elems
    /\ result' = escapeArrayV1(a.elems)
    /\ separator' = Omitted /\ ret' = Undefined
    /\ str' = <<>> /\ val' = Undefined /\ wrapStrings' = TRUE
    /\ strings' = <<>> /\ values' = <<>>

EscapeValueV1 ==
  /\ fn = "none"
  /\ \E v \in ValuesV1, w \in BOOLEAN :
    /\ fn' = "escapeValueV1"
    /\ val' = v
    /\ wrapStrings' = w
    /\ result' = escapeValueV1(v, w)
    /\ separator' = Omitted /\ ret' = Undefined
    /\ str' = <<>> /\ arr' = <<>> /\ strings' = <<>> /\ values' = <<>>

FormatDate ==
  /\ fn = "none"
  /\ \E d \in Dates :
    /\ fn' = "formatDate"
    /\ val' = DateObj(d)
    /\ result' = Ok(formatDate(d))
    /\ separator' = Omitted /\ ret' = Undefined
    /\ str' = <<>> /\ arr' = <<>> /\ wrapStrings' = TRUE
    /\ strings' = <<>> /\ values' = <<>>

FormatDateTime ==
  /\ fn = "none"
  /\ \E d \in Dates :
    /\ fn' = "formatDateTime"
    /\ val' = DateObj(d)
    /\ result' = formatDateTime(d)
    /\ separator' = Omitted /\ ret' = Undefined
    /\ str' = <<>> /\ arr' = <<>> /\ wrapStrings' = TRUE
    /\ strings' = <<>> /\ values' = <<>>

Join ==
  /\ fn = "none"
  /\ \E vs \in SeqsUpTo(SlotValues, MaxSlots), sep \in Separators :
    /\ fn' = "join"
    /\ values' = vs
    /\ separator' = sep
    /\ result' = (IF join(vs, sep).ok THEN Ok(<<>>) ELSE Throw(join(vs, sep).err))
    /\ ret' = join(vs, sep).ret
    /\ str' = <<>> /\ val' = Undefined /\ arr' = <<>> /\ wrapStrings' = TRUE
    /\ strings' = <<>>

MakeDate ==
  /\ fn = "none"
  /\ \E d \in Dates :
    /\ fn' = "date"
    /\ val' = DateObj(d)
    /\ result' = (IF date(d).ok THEN Ok(<<>>) ELSE Throw(date(d).err))
    /\ ret' = date(d).ret
    /\ str' = <<>> /\ arr' = <<>> /\ wrapStrings' = TRUE
    /\ strings' = <<>> /\ values' = <<>> /\ separator' = Omitted

Next ==
  \/ EscapeString \/ EscapeLike \/ EscapeValue \/ EscapeArray \/ Soql
  \/ EscapeArrayV1 \/ EscapeValueV1 \/ FormatDate \/ FormatDateTime
  \/ Join \/ MakeDate

Spec == Init /\ [][Next]_vars


(***************************************************************************)
(* Helpers of the properties.                                              *)
(***************************************************************************)
Range(f) == {f[i] : i \in DOMAIN f}

\* a value made by like(), raw(), or a plain array / string
IsLike(v) == v = like(v.value.s)
IsRaw(v) == v = raw(v.value.s)
IsPlainArray(v) == v = Arr(v.elems)
IsPlainString(v) == v = Str(v.str)

Escapes(v) == escapeValue(v, TRUE).ok

\* segments[1] + texts[1] + segments[2] + ... + segments[n + 1]
Interleave(segs, texts) ==
  Concat([i \in 1..(2 * Len(texts) + 1) |->
            IF i % 2 = 1 THEN segs[(i + 1) \div 2] ELSE texts[i \div 2]])

\* C1: when every value of a template escapes, soql returns the segments,
\* unmodified and in order, with the escape (default quoting) of the i-th value
\* between segment i and segment i + 1.
C1_SoqlInterleaves ==
  (fn = "soql" /\ \A i \in DOMAIN values : Escapes(values[i]))
    => /\ result.ok
       /\ Len(strings) = Len(values) + 1
       /\ result.text =
            Interleave(strings, [i \in DOMAIN values |-> escapeValue(values[i], TRUE).text])

C1_Witness ==
  /\ fn = "soql" /\ Len(values) = 2 /\ result.ok
  /\ strings[1] # <<>> /\ strings[2] # <<>> /\ strings[3] # <<>>
  /\ values[1] = Str(<<SQ>>) /\ values[2] = Num(Finite(500))
  /\ result.text = <<"a", " ", SQ, BS, SQ, SQ, "a", " ", "5", "0", "0", "a", " ">>

(***************************************************************************)
(* A reader of the query text: outside a string literal a quote opens one; *)
(* inside, a backslash takes the next character with it and a quote closes *)
(* the literal.  Scan gives the text outside the literals, with STR for    *)
(* each complete literal and OPEN for one that the text leaves unclosed.   *)
(***************************************************************************)
RECURSIVE Scan(_, _, _, _)
Scan(text, i, inStr, acc) ==
  IF i > Len(text) THEN (IF inStr THEN Append(acc, "OPEN") ELSE acc)
  ELSE IF ~inStr THEN
    IF text[i] = SQ THEN Scan(text, i + 1, TRUE, acc)
    ELSE Scan(text, i + 1, FALSE, Append(acc, text[i]))
  ELSE IF text[i] = BS THEN Scan(text, i + 2, TRUE, acc)
  ELSE IF text[i] = SQ THEN Scan(text, i + 1, FALSE, Append(acc, "STR"))
  ELSE Scan(text, i + 1, TRUE, acc)

\* the length of the run of backslashes of s that ends at position i
RECURSIVE BackslashRun(_, _)
BackslashRun(s, i) ==
  IF i < 1 \/ s[i] # BS THEN 0 ELSE 1 + BackslashRun(s, i - 1)

\* quote, body, quote; every quote of the body follows an odd run of
\* backslashes and the body does not end in an odd run
QuotedSafely(frag) ==
  /\ Len(frag) >= 2
  /\ frag[1] = SQ /\ frag[Len(frag)] = SQ
  /\ LET body == SubSeq(frag, 2, Len(frag) - 1) IN
     /\ \A i \in DOMAIN body : body[i] = SQ => BackslashRun(body, i - 1) % 2 = 1
     /\ BackslashRun(body, Len(body)) % 2 = 0

\* strings, like() payloads and non-empty arrays of these, at any depth
RECURSIVE IsStringTree(_)
IsStringTree(v) ==
  \/ IsPlainString(v)
  \/ IsLike(v)
  \/ /\ IsPlainArray(v) /\ Len(v.elems) > 0
     /\ \A i \in DOMAIN v.elems : IsStringTree(v.elems[i])

\* what a reader must see of a string tree: one literal per string
RECURSIVE Skeleton(_)
Skeleton(v) ==
  IF IsPlainArray(v)
  THEN <<"(">> \o JoinTexts([i \in DOMAIN v.elems |-> Skeleton(v.elems[i])], <<",", " ">>)
         \o <<")">>
  ELSE <<"STR">>

\* C2: injection resistance.  A string or like() payload in a slot is emitted
\* as quote, body, quote, where the body cannot close the literal; and a reader
\* of the output of a slot holding strings (directly or in arrays at any depth)
\* finds exactly one complete literal per string, with only the template's text
\* and the list punctuation outside the literals.
C2_InjectionResistance ==
  /\ (fn = "escapeValue" /\ wrapStrings /\ IsStringTree(val))
       => /\ result.ok
          /\ Scan(result.text, 1, FALSE, <<>>) = Skeleton(val)
          /\ (~IsPlainArray(val) => QuotedSafely(result.text))
  /\ (fn = "escapeArray" /\ IsStringTree(Arr(arr)))
       => /\ result.ok
          /\ Scan(result.text, 1, FALSE, <<>>) = Skeleton(Arr(arr))
  /\ (fn = "soql" /\ \A i \in DOMAIN values : IsStringTree(values[i]))
       => /\ result.ok
          /\ Scan(result.text, 1, FALSE, <<>>) =
               Interleave(strings, [i \in DOMAIN values |-> Skeleton(values[i])])

C2_Witness ==
  /\ fn = "soql" /\ Len(values) = 1
  /\ values[1] = Arr(<<Str(<<SQ>>), Arr(<<Str(<<BS, SQ>>), Str(<<SQ, BS>>)>>)>>)
  /\ result.ok

\* the units escapeString may emit: a character that needs no escape, or a
\* backslash followed by one of \ ' n r t 0
RECURSIVE WellFormed(_, _)
WellFormed(s, i) ==
  IF i > Len(s) THEN TRUE
  ELSE IF s[i] = BS
    THEN i + 1 <= Len(s) /\ s[i + 1] \in {BS, SQ, "n", "r", "t", "0"}
           /\ WellFormed(s, i + 2)
  ELSE s[i] \notin {SQ, LF, CR, TAB, NUL} /\ WellFormed(s, i + 1)

\* C3: escapeString never fails and its output reads, left to right, as units
\* that are either a plain character or a backslash followed by one of
\* \ ' n r t 0; so it holds no raw quote, newline, CR, tab or NUL.
C3_EscapeStringUnits ==
  fn = "escapeString"
    => /\ result.ok
       /\ WellFormed(result.text, 1)
       /\ \A i \in DOMAIN result.text : result.text[i] \notin {SQ, LF, CR, TAB, NUL}
            \/ (i > 1 /\ result.text[i] = SQ /\ result.text[i - 1] = BS)

C3_Witness ==
  /\ fn = "escapeString" /\ str = <<BS, "n", NUL>>
  /\ result.text = <<BS, BS, "n", BS, "0">>

\* the escape of one character
CharEscape(c) ==
  CASE c = BS -> <<BS, BS>>
    [] c = SQ -> <<BS, SQ>>
    [] c = LF -> <<BS, "n">>
    [] c = CR -> <<BS, "r">>
    [] c = TAB -> <<BS, "t">>
    [] c = NUL -> <<BS, "0">>
    [] OTHER -> <<c>>

\* C4: the six sequential replacements of escapeString amount to escaping each
\* character of the input on its own, in order: the backslashes added for a
\* quote or a control character are never doubled.
C4_EscapeStringPerCharacter ==
  fn = "escapeString"
    => result.text = Concat([i \in DOMAIN str |-> CharEscape(str[i])])

C4_Witness ==
  /\ fn = "escapeString" /\ str = <<"a", BS, SQ>>
  /\ result.text = <<"a", BS, BS, BS, SQ>>

LikeCharEscape(c) == IF c \in {"%", "_"} THEN <<BS, c>> ELSE CharEscape(c)

\* C5: escapeLike never fails; it is escapeString with every % and _ preceded
\* by one added backslash, every other character escaped as escapeString does.
C5_EscapeLikeWildcards ==
  fn = "escapeLike"
    => /\ result.ok
       /\ result.text =
            ReplaceAll(ReplaceAll(escapeString(str), "%", <<BS, "%">>), "_", <<BS, "_">>)
       /\ result.text = Concat([i \in DOMAIN str |-> LikeCharEscape(str[i])])

C5_Witness ==
  /\ fn = "escapeLike" /\ str = <<"%", "_", SQ>>
  /\ result.text = <<BS, "%", BS, "_", BS, SQ>>

\* C6: like('%' + s + '%') in a slot gives a quoted pattern whose first and
\* last percent signs are unescaped, only the wildcards inside s being escaped.
C6_LikeKeepsCallerWildcards ==
  (/\ fn = "escapeValue" /\ wrapStrings /\ IsLike(val)
   /\ Len(val.value.s) >= 2
   /\ val.value.s[1] = "%" /\ val.value.s[Len(val.value.s)] = "%")
    => result.text =
         <<SQ, "%">> \o escapeLike(SubSeq(val.value.s, 2, Len(val.value.s) - 1))
           \o <<"%", SQ>>


\* the kinds of escapeValue in priority order: 1 null/undefined, 2 Raw, 3 Like,
\* 4 DateOnly, 5 array, 6 boolean, 7 number, 8 Date, 9 string
MatchesKind(v, k) ==
  CASE k = 1 -> v.isNull \/ v.typeof = "undefined"
    [] k = 2 -> v.typeof = "object" /\ ~v.isNull /\ v.RAW_SYMBOL = "true"
    [] k = 3 -> v.typeof = "object" /\ ~v.isNull /\ v.LIKE_SYMBOL = "true"
    [] k = 4 -> v.typeof = "object" /\ ~v.isNull /\ v.DATE_SYMBOL = "true"
    [] k = 5 -> v.isArray
    [] k = 6 -> v.typeof = "boolean"
    [] k = 7 -> v.typeof = "number"
    [] k = 8 -> v.isDate
    [] k = 9 -> v.typeof = "string"

KindsOf(v) == {k \in 1..9 : MatchesKind(v, k)}

\* the earliest kind the value matches, 0 when it matches none
KindOf(v) ==
  IF KindsOf(v) = {} THEN 0
  ELSE CHOOSE k \in KindsOf(v) : \A j \in KindsOf(v) : k <= j

Quoted(t, wrap) == IF wrap THEN <<SQ>> \o t \o <<SQ>> ELSE t

\* C7: escapeValue handles a value as the earliest kind it matches in the order
\* null/undefined, Raw, Like, DateOnly, array, boolean, number, Date, string;
\* a value matching several kinds is handled by the earliest only.
C7_ClassificationPriority ==
  fn = "escapeValue"
    => LET k == KindOf(val) IN
       /\ k = 0 => ~result.ok
       /\ k = 1 => result = Ok(NullText)
       /\ k = 2 => result = Ok(val.value.s)
       /\ k = 3 => result = Ok(Quoted(escapeLike(val.value.s), wrapStrings))
       /\ k = 4 => result = Ok(formatDate(val.value.d))
       /\ k = 5 => result = escapeArray(val.elems)
       /\ k = 6 => result = Ok(IF val.bool THEN TrueText ELSE FalseText)
       /\ k = 7 => IF val.num.kind = "finite"
                   THEN result = Ok(NumberToString(val.num.int))
                   ELSE ~result.ok
       /\ k = 8 => IF val.time.valid
                   THEN result = formatDateTime(val.time)
                   ELSE ~result.ok
       /\ k = 9 => result = Ok(Quoted(escapeString(val.str), wrapStrings))

C7_Witness ==
  /\ fn = "escapeValue" /\ wrapStrings
  /\ KindsOf(val) = {2, 3}
  /\ result = Ok(<<"a", SQ>>)

\* C8: a raw() payload is emitted unchanged, whatever it contains and whatever
\* the flag; soql inserts it verbatim, unquoted; literal(kw) is emitted as kw.
C8_RawVerbatim ==
  /\ (fn = "escapeValue" /\ IsRaw(val)) => result = Ok(val.value.s)
  /\ (fn = "escapeValue" /\ \E kw \in DateLiterals : val = literal(kw))
       => result = Ok(val.value.s)
  /\ (fn = "soql" /\ Len(values) = 1 /\ IsRaw(values[1]))
       => result = Ok(strings[1] \o values[1].value.s \o strings[2])

C8_Witness ==
  /\ fn = "escapeValue" /\ wrapStrings
  /\ val = raw(<<SQ, BS, LF>>)
  /\ result = Ok(<<SQ, BS, LF>>)

\* C9: escapeArray of a non-empty array whose elements escape returns "(", the
\* elements' escapes with wrapStrings = TRUE joined by ", " in the original
\* order, and ")"; the same when the array goes through escapeValue with either
\* flag; a nested array gives a nested parenthesized list.
ListOf(elems) ==
  <<"(">>
    \o Concat([i \in DOMAIN elems |->
                 (IF i = 1 THEN <<>> ELSE <<",", " ">>) \o escapeValue(elems[i], TRUE).text])
    \o <<")">>

C9_ArrayList ==
  /\ (fn = "escapeArray" /\ Len(arr) > 0 /\ \A i \in DOMAIN arr : Escapes(arr[i]))
       => result = Ok(ListOf(arr))
  /\ (fn = "escapeValue" /\ IsPlainArray(val) /\ Len(val.elems) > 0
        /\ \A i \in DOMAIN val.elems : Escapes(val.elems[i]))
       => /\ result = Ok(ListOf(val.elems))
          /\ \A i \in DOMAIN val.elems :
               IsPlainString(val.elems[i])
                 => escapeValue(val.elems[i], TRUE).text[1] = SQ

C9_Witness ==
  /\ fn = "escapeValue" /\ ~wrapStrings
  /\ val = Arr(<<Str(<<SQ>>), Arr(<<Str(<<"a">>), Num(Finite(42))>>)>>)
  /\ result.text =
       <<"(", SQ, BS, SQ, SQ, ",", " ", "(", SQ, "a", SQ, ",", " ", "4", "2", ")", ")">>

\* an array that is empty or holds an empty array at some depth
RECURSIVE HoldsEmptyArray(_)
HoldsEmptyArray(v) ==
  /\ IsPlainArray(v)
  /\ \/ Len(v.elems) = 0
     \/ \E i \in DOMAIN v.elems : HoldsEmptyArray(v.elems[i])

DigitValue(c) == CHOOSE d \in 0..9 : DigitChars[d + 1] = c

RECURSIVE DecimalValue(_)
DecimalValue(ds) ==
  IF ds = <<>> THEN 0
  ELSE 10 * DecimalValue(SubSeq(ds, 1, Len(ds) - 1)) + DigitValue(ds[Len(ds)])

\* digits only, no leading zero, denoting n >= 0
IsDecimalOf(ds, n) ==
  /\ Len(ds) >= 1
  /\ \A i \in DOMAIN ds : IsDigit(ds[i])
  /\ (Len(ds) > 1 => ds[1] # "0")
  /\ DecimalValue(ds) = n

NonFiniteMessage(n) ==
  CASE n = NaN -> "Invalid SOQL number value: NaN"
    [] n = Infinity -> "Invalid SOQL number value: Infinity"
    [] n = NegInfinity -> "Invalid SOQL number value: -Infinity"

\* C12: escapeValue on a number that is not finite fails, for either flag, with
\* a message naming the value; on a finite number it returns the canonical
\* decimal text, unquoted; a non-finite number in a slot makes soql fail.
C12_NumberBranch ==
  /\ (fn = "escapeValue" /\ val = Num(val.num))
       => IF val.num \in {NaN, Infinity, NegInfinity}
          THEN ~result.ok /\ result.text = <<>> /\ result.err = NonFiniteMessage(val.num)
          ELSE /\ result.ok
               /\ IF val.num.int < 0
                  THEN /\ result.text[1] = "-"
                       /\ IsDecimalOf(Tail(result.text), 0 - val.num.int)
                  ELSE IsDecimalOf(result.text, val.num.int)
  /\ (fn = "soql" /\ Len(values) = 1 /\ values[1] \in {Num(NaN), Num(Infinity), Num(NegInfinity)})
       => ~result.ok /\ result.err = NonFiniteMessage(values[1].num)

C12_Witness ==
  /\ fn = "escapeValue" /\ ~wrapStrings /\ val = Num(NegInfinity)
  /\ ~result.ok /\ result.err = "Invalid SOQL number value: -Infinity"


\* ds is n written in exactly width digits, zero-padded
IsPadded(ds, width, n) ==
  /\ Len(ds) = width
  /\ \A i \in DOMAIN ds : IsDigit(ds[i])
  /\ DecimalValue(ds) = n

\* t is YYYY-MM-DDThh:mm:ssZ of the UTC fields of d, the milliseconds dropped
IsDateTimeOf(t, d) ==
  /\ Len(t) = 20
  /\ IsPadded(SubSeq(t, 1, 4), 4, d.year)
  /\ t[5] = "-" /\ IsPadded(SubSeq(t, 6, 7), 2, d.month + 1)
  /\ t[8] = "-" /\ IsPadded(SubSeq(t, 9, 10), 2, d.day)
  /\ t[11] = "T" /\ IsPadded(SubSeq(t, 12, 13), 2, d.hours)
  /\ t[14] = ":" /\ IsPadded(SubSeq(t, 15, 16), 2, d.minutes)
  /\ t[17] = ":" /\ IsPadded(SubSeq(t, 18, 19), 2, d.seconds)
  /\ t[20] = "Z"

\* C13: escapeValue on a Date fails when the instant is invalid and otherwise
\* returns YYYY-MM-DDThh:mm:ssZ of the UTC fields, zero-padded, unquoted, the
\* milliseconds truncated.
C13_DateTimeFormat ==
  /\ (fn = "escapeValue" /\ val = DateObj(val.time))
       => IF val.time.valid
          THEN result.ok /\ IsDateTimeOf(result.text, val.time)
          ELSE ~result.ok
  /\ (fn = "formatDateTime" /\ val.time.valid)
       => result.ok /\ IsDateTimeOf(result.text, val.time)

\* the same, for the instants whose UTC year has at most four digits
C13_DateTimeFormatFourDigitYears ==
  /\ (fn = "escapeValue" /\ val = DateObj(val.time))
       => IF ~val.time.valid THEN ~result.ok
          ELSE (val.time.year >= 0 /\ val.time.year <= 9999)
                 => result.ok /\ IsDateTimeOf(result.text, val.time)
  /\ (fn = "formatDateTime" /\ val.time.valid
        /\ val.time.year >= 0 /\ val.time.year <= 9999)
       => result.ok /\ IsDateTimeOf(result.text, val.time)

\* t is YYYY-MM-DD of the UTC fields of d
IsDateOf(t, d) ==
  /\ Len(t) = 10
  /\ IsPadded(SubSeq(t, 1, 4), 4, d.year)
  /\ t[5] = "-" /\ IsPadded(SubSeq(t, 6, 7), 2, d.month + 1)
  /\ t[8] = "-" /\ IsPadded(SubSeq(t, 9, 10), 2, d.day)

\* C14: for a valid instant whose UTC year is in 0..9999, formatDate returns
\* the ten characters YYYY-MM-DD (four-digit year, two-digit month and day),
\* and escapeValue on its DateOnly wrapper returns this text for both flags.
C14_DateOnlyFormat ==
  /\ (fn = "formatDate" /\ val.time.valid
        /\ val.time.year >= 0 /\ val.time.year <= 9999)
       => result.ok /\ IsDateOf(result.text, val.time)
  /\ (fn = "escapeValue" /\ date(val.value.d).ok /\ val = date(val.value.d).ret
        /\ val.value.d.year >= 0 /\ val.value.d.year <= 9999)
       => result.ok /\ IsDateOf(result.text, val.value.d)

\* the same, for the instants whose UTC year is in 1000..9999
C14_DateOnlyFormatFrom1000 ==
  /\ (fn = "formatDate" /\ val.time.valid
        /\ val.time.year >= 1000 /\ val.time.year <= 9999)
       => result.ok /\ IsDateOf(result.text, val.time)
  /\ (fn = "escapeValue" /\ date(val.value.d).ok /\ val = date(val.value.d).ret
        /\ val.value.d.year >= 1000 /\ val.value.d.year <= 9999)
       => result.ok /\ IsDateOf(result.text, val.value.d)


\* the index of the first value that does not escape
FirstFailing(vs) == CHOOSE i \in DOMAIN vs : ~Escapes(vs[i]) /\ \A j \in 1..(i - 1) : Escapes(vs[j])

\* escapeValue(v1) + sep + ... + sep + escapeValue(vn), default quoting
JoinedText(vs, sep) ==
  Concat([i \in DOMAIN vs |->
            (IF i = 1 THEN <<>> ELSE sep) \o escapeValue(vs[i], TRUE).text])

\* C15: join returns a Raw wrapper of the values' escapes (default quoting)
\* separated by the separator, ', ' when it is omitted; the wrapper is emitted
\* as exactly that text by escapeValue and by soql; when an element fails to
\* escape, join fails with that failure.
C15_Join ==
  fn = "join"
    => IF \A i \in DOMAIN values : Escapes(values[i])
       THEN LET sep == IF separator = Omitted THEN <<",", " ">> ELSE separator.text
                t == JoinedText(values, sep) IN
            /\ result.ok
            /\ ret = raw(t)
            /\ \A w \in BOOLEAN : escapeValue(ret, w) = Ok(t)
            /\ \A s1 \in Segments, s2 \in Segments :
                 soql(<<s1, s2>>, <<ret>>) = Ok(s1 \o t \o s2)
       ELSE /\ ~result.ok
            /\ result.err = escapeValue(values[FirstFailing(values)], TRUE).err
            /\ ret = Undefined

C15_Witness ==
  /\ fn = "join" /\ separator = Given(<<SQ>>)
  /\ values = <<Str(<<SQ>>), raw(<<"a">>)>>
  /\ ret = raw(<<SQ, BS, SQ, SQ, SQ, "a">>)


\* C16: composition is all-or-nothing: when the value of some slot fails to
\* escape, soql fails with the failure of the first such slot and returns no
\* text, whatever was composed before it.
C16_SoqlAllOrNothing ==
  (fn = "soql" /\ \E i \in DOMAIN values : ~Escapes(values[i]))
    => /\ ~result.ok
       /\ result.text = <<>>
       /\ result.err = escapeValue(values[FirstFailing(values)], TRUE).err

C16_Witness ==
  /\ fn = "soql" /\ strings[1] # <<>>
  /\ values = <<Str(<<"a">>), Num(NaN)>>
  /\ ~result.ok /\ result.err = "Invalid SOQL number value: NaN"


NoTrueMarker(v) ==
  v.RAW_SYMBOL # "true" /\ v.LIKE_SYMBOL # "true" /\ v.DATE_SYMBOL # "true"

\* the value without its marker properties and without its value property
Unmarked(v) ==
  [v EXCEPT !.RAW_SYMBOL = "absent", !.LIKE_SYMBOL = "absent", !.DATE_SYMBOL = "absent",
            !.__raw = "absent", !.__like = "absent", !.value = NoPayload]

\* C17: only a marker whose value is true makes a value a wrapper.  A value none
\* of whose markers is true is escaped as if it had no marker and no value
\* property; when it is an object that is neither an array nor a Date,
\* escapeValue fails with the unsupported-type error.
C17_MarkersDecide ==
  (fn = "escapeValue" /\ NoTrueMarker(val))
    => /\ result = escapeValue(Unmarked(val), wrapStrings)
       /\ KindOf(val) \notin {2, 3, 4}
       /\ (val.typeof = "object" /\ ~val.isNull /\ ~val.isArray /\ ~val.isDate)
            => /\ ~result.ok
               /\ result.err = "Unsupported SOQL value type: object"

C17_Witness ==
  /\ fn = "escapeValue"
  /\ val = [Object EXCEPT !.value = StringPayload(<<"a", SQ>>)]
  /\ ~result.ok /\ result.err = "Unsupported SOQL value type: object"

\* C18: the flag matters only for plain strings and Like wrappers, where the
\* result with the flag is the result without it between two quotes; every
\* other kind gives the same result, or the same failure, for both flag values;
\* null and undefined give null, the booleans true and false.
C18_FlagScope ==
  fn = "escapeValue"
    => LET other == escapeValue(val, ~wrapStrings) IN
       /\ IF KindOf(val) \in {3, 9}
          THEN /\ result.ok /\ other.ok
               /\ wrapStrings => result.text = <<SQ>> \o other.text \o <<SQ>>
               /\ ~wrapStrings => other.text = <<SQ>> \o result.text \o <<SQ>>
          ELSE result = other
       /\ val \in {Null, Undefined} => result = Ok(<<"n", "u", "l", "l">>)
       /\ val = Bool(TRUE) => result = Ok(<<"t", "r", "u", "e">>)
       /\ val = Bool(FALSE) => result = Ok(<<"f", "a", "l", "s", "e">>)

C18_Witness ==
  /\ fn = "escapeValue" /\ ~wrapStrings
  /\ val = like(<<"%", SQ>>)
  /\ result = Ok(<<BS, "%", BS, SQ>>)


\* C19: date(v) fails on an invalid instant and returns no wrapper; on a valid
\* one it returns a DateOnly wrapper of the same instant, which escapeValue
\* turns, without failure and for both flags, into formatDate(v).
C19_DateConstructor ==
  fn = "date"
    => IF ~val.time.valid
       THEN ~result.ok /\ result.err = "Invalid Date object" /\ ret = Undefined
       ELSE /\ result.ok
            /\ KindsOf(ret) = {4}
            /\ ret.value = DatePayload(val.time)
            /\ \A w \in BOOLEAN : escapeValue(ret, w) = Ok(formatDate(val.time))

C19_Witness ==
  /\ fn = "date" /\ val.time = Instant(2024, 0, 5, 0, 0, 0, 0)
  /\ result.ok
  /\ escapeValue(ret, TRUE) = Ok(<<"2", "0", "2", "4", "-", "0", "1", "-", "0", "5">>)


\* Left-to-right decoding of an escaped string: a backslash followed by one of
\* \ ' n r t 0 stands for the original character, anything else for itself.
Unescaped(c) ==
  CASE c = "n" -> LF
    [] c = "r" -> CR
    [] c = "t" -> TAB
    [] c = "0" -> NUL
    [] OTHER -> c

RECURSIVE Decode(_)
Decode(s) ==
  IF s = <<>> THEN <<>>
  ELSE IF s[1] = BS /\ Len(s) >= 2 /\ s[2] \in {BS, SQ, "n", "r", "t", "0"}
       THEN <<Unescaped(s[2])>> \o Decode(SubSeq(s, 3, Len(s)))
       ELSE <<s[1]>> \o Decode(Tail(s))

EscapedStrings == {escapeString(s) : s \in Strings}

\* C20: escapeString is injective on the strings over the alphabet (as many
\* distinct outputs as inputs; a fact about the function alone, evaluated in
\* the state before any call), and decoding its output left to right gives
\* back the input exactly.
C20_EscapeStringReversible ==
  /\ fn = "none" => Cardinality(EscapedStrings) = Cardinality(Strings)
  /\ fn = "escapeString" => result.ok /\ Decode(result.text) = str

C20_Witness ==
  /\ fn = "escapeString" /\ str = <<BS, "n", LF>>
  /\ result.text = <<BS, BS, "n", BS, "n">>
  /\ Decode(result.text) = str


\* a value made by the earlier implementation's constructors
IsRawV1(v) == v = rawV1(v.value.s)
IsLikeV1(v) == v = likeV1(v.value.s)

\* The values the two implementations are compared on, as given to the
\* earlier one: null, undefined, strings, booleans, numbers, Dates, raw and
\* like wrappers made by its constructors, and non-empty arrays of these.
RECURSIVE ComparableV1(_)
ComparableV1(v) ==
  \/ v \in {Null, Undefined}
  \/ IsPlainString(v) \/ v = Bool(v.bool) \/ v = Num(v.num) \/ v = DateObj(v.time)
  \/ IsRawV1(v) \/ IsLikeV1(v)
  \/ /\ IsPlainArray(v) /\ Len(v.elems) > 0
     /\ \A i \in DOMAIN v.elems : ComparableV1(v.elems[i])

\* the same values as given to the current implementation
RECURSIVE Comparable(_)
Comparable(v) ==
  \/ v \in {Null, Undefined}
  \/ IsPlainString(v) \/ v = Bool(v.bool) \/ v = Num(v.num) \/ v = DateObj(v.time)
  \/ IsRaw(v) \/ IsLike(v)
  \/ /\ IsPlainArray(v) /\ Len(v.elems) > 0
     /\ \A i \in DOMAIN v.elems : Comparable(v.elems[i])

\* the same value built with the other implementation's constructors
RECURSIVE AsCurrent(_)
AsCurrent(v) ==
  IF IsRawV1(v) THEN raw(v.value.s)
  ELSE IF IsLikeV1(v) THEN like(v.value.s)
  ELSE IF IsPlainArray(v) THEN Arr([i \in DOMAIN v.elems |-> AsCurrent(v.elems[i])])
  ELSE v

RECURSIVE AsV1(_)
AsV1(v) ==
  IF IsRaw(v) THEN rawV1(v.value.s)
  ELSE IF IsLike(v) THEN likeV1(v.value.s)
  ELSE IF IsPlainArray(v) THEN Arr([i \in DOMAIN v.elems |-> AsV1(v.elems[i])])
  ELSE v

\* both return the same string, or both fail
Agree(r1, r2) == (r1.ok /\ r2.ok /\ r1.text = r2.text) \/ (~r1.ok /\ ~r2.ok)

\* C21: on every value that holds no empty array and no DateOnly wrapper, built
\* from null, undefined, strings, booleans, numbers, Dates, each
\* implementation's own raw and like wrappers and non-empty arrays of these,
\* the two escapeValue implementations return the same string or both fail,
\* for both flag values.
C21_ImplementationsAgree ==
  /\ (fn = "escapeValueV1" /\ ComparableV1(val))
       => Agree(result, escapeValue(AsCurrent(val), wrapStrings))
  /\ (fn = "escapeValue" /\ Comparable(val))
       => Agree(escapeValueV1(AsV1(val), wrapStrings), result)

C21_Witness ==
  /\ fn = "escapeValueV1" /\ wrapStrings = FALSE
  /\ val = Arr(<<Str(<<SQ>>), Arr(<<likeV1(<<"%">>), Null>>)>>)
  /\ ComparableV1(val)
  /\ AsCurrent(val) = Arr(<<Str(<<SQ>>), Arr(<<like(<<"%">>), Null>>)>>)
  /\ result = Ok(<<"(", SQ, BS, SQ, SQ, ",", " ", "(", SQ, BS, "%", SQ, ",", " ",
                  "n", "u", "l", "l", ")", ")">>)
  /\ escapeValue(AsCurrent(val), wrapStrings) = result

====
